---- MODULE Spec2Model ----
(***************************************************************************)
(* litert/rust/wrapper.h: the aggregation header of the LiteRT C API for   *)
(* the Rust binding layer.  The header is a list of preprocessor           *)
(* directives; the model is that list, run by the preprocessor of each     *)
(* translation unit that includes it.                                      *)
(***************************************************************************)
EXTENDS Naturals, Sequences, FiniteSets

VARIABLES
    units,        \* the translation units of the build
    avail,        \* the source tree: group header -> "ok" | "missing" | "broken"
    backref,      \* the group headers that themselves include wrapper.h
    macros,       \* per unit: the macros defined so far
    stack,        \* per unit: the include stack, innermost file first
    requested,    \* per unit, per group: #include directives of wrapper.h run for it
    visible,      \* per unit: the declarations visible so far
    diags,        \* per unit: the diagnostics reported so far
    halted,       \* per unit: a fatal diagnostic ended the translation
    finished,     \* per unit: the translation reached the end of its source
    resolutions,  \* per unit: completed top-level inclusions of wrapper.h
    first,        \* per unit: what the unit looked like when the first one completed
    objs,         \* per unit: the external definitions of its object file
    reordered,    \* per unit: an #include line was run ahead of an earlier one
    linked,       \* the objects have been linked
    linkError     \* the link found one symbol defined by two objects

vars == <<units, avail, backref, macros, stack, requested, visible, diags,
          halted, finished, resolutions, first, objs, reordered, linked, linkError>>

\* ---------------------------------------------------------------- bounds
MaxIncludes == 2
MaxBad == 1
MaxDepth == 6
Window == 2

\* ------------------------------------------------------- wrapper.h, as text
Self == "wrapper.h"
TU == "tu"
Guard == "THIRD_PARTY_ODML_LITERT_LITERT_RUST_WRAPPER_H_"

Include(f) == [op |-> "include", arg |-> f]

IncludeList ==
    << Include("../c/internal/litert_logging.h"),
       Include("../c/litert_common.h"),
       Include("../c/litert_compiled_model.h"),
       Include("../c/litert_environment.h"),
       Include("../c/litert_environment_options.h"),
       Include("../c/litert_event.h"),
       Include("../c/litert_metrics.h"),
       Include("../c/litert_model.h"),
       Include("../c/litert_op_options.h"),
       Include("../c/litert_opaque_options.h"),
       Include("../c/litert_options.h"),
       Include("../c/litert_tensor_buffer.h"),
       Include("../c/litert_tensor_buffer_requirements.h") >>

\* wrapper.h without its tenth #include line.
WrapperHDropsOne ==
    << [op |-> "ifndef", arg |-> Guard], [op |-> "define", arg |-> Guard] >>
    \o SubSeq(IncludeList, 1, 9) \o SubSeq(IncludeList, 11, Len(IncludeList))
    \o << [op |-> "endif", arg |-> Guard] >>

\* wrapper.h defining a second macro of its own.
WrapperHExtraMacro ==
    << [op |-> "ifndef", arg |-> Guard], [op |-> "define", arg |-> Guard],
       [op |-> "define", arg |-> "LITERT_RUST_WRAPPER"] >>
    \o IncludeList \o << [op |-> "endif", arg |-> Guard] >>

\* wrapper.h defining its guard after the #include lines instead of before them.
WrapperHDefineLast ==
    << [op |-> "ifndef", arg |-> Guard] >> \o IncludeList
    \o << [op |-> "define", arg |-> Guard], [op |-> "endif", arg |-> Guard] >>

WrapperH ==
    << [op |-> "ifndef", arg |-> Guard], [op |-> "define", arg |-> Guard] >>
    \o IncludeList \o << [op |-> "endif", arg |-> Guard] >>

\* The thirteen declaration groups the header names.
Groups == { IncludeList[i].arg : i \in 1..Len(IncludeList) }

\* The directives of wrapper.h that are #include lines.
IncludeLines == { i \in 1..Len(WrapperH) : WrapperH[i].op = "include" }

\* The #endif that closes the #ifndef at line i (the file nests no conditional).
MatchingEndif(i) ==
    CHOOSE j \in (i+1)..Len(WrapperH) :
        /\ WrapperH[j].op = "endif"
        /\ \A k \in (i+1)..(j-1) : WrapperH[k].op # "endif"

\* ------------------------------------------------------ the declaration groups
\* The declarations a group header makes.
DeclsOf(g) == { [name |-> g, from |-> g] }

\* What resolving group g directly reports when it cannot be resolved.
DirectFailure(g) == [file |-> g, kind |-> avail[g]]

\* The #include line reporting a failure of its own in place of the group's.
FailureWrapped(g) == [file |-> Self, kind |-> "include failed"]

\* What the #include line of wrapper.h surfaces for a group that fails: the line adds
\* nothing of its own.
FailureOf(g) == DirectFailure(g)

\* ------------------------------------------------------------------- state
Top(u) == Head(stack[u])
Running(u) == /\ u \in units
              /\ ~halted[u]
              /\ ~finished[u]
              /\ ~linked
InWrapper(u) == /\ Running(u)
                /\ Top(u).file = Self
                /\ Top(u).pc \in 1..Len(WrapperH)
AtOp(u, op) == /\ InWrapper(u)
               /\ WrapperH[Top(u).pc].op = op

\* The stack with the innermost frame moved to line p.
Goto(u, p) == <<[Top(u) EXCEPT !.pc = p]>> \o Tail(stack[u])

Obs(u) == [requested |-> requested[u], visible |-> visible[u],
           diags |-> diags[u], macros |-> macros[u]]

\* The source trees with at most n groups missing or broken.
Trees(n) ==
    LET Bad == { S \in SUBSET Groups : Cardinality(S) <= n }
    IN  UNION { { [g \in Groups |-> IF g \in S THEN k[g] ELSE "ok"] :
                    k \in [S -> {"missing", "broken"}] } : S \in Bad }

InitUnits(U) ==
    /\ units = U
    /\ macros = [u \in U |-> {}]
    /\ stack = [u \in U |-> <<[file |-> TU, pc |-> 0]>>]
    /\ requested = [u \in U |-> [g \in Groups |-> 0]]
    /\ visible = [u \in U |-> {}]
    /\ diags = [u \in U |-> {}]
    /\ halted = [u \in U |-> FALSE]
    /\ finished = [u \in U |-> FALSE]
    /\ resolutions = [u \in U |-> 0]
    /\ first = [u \in U |-> <<>>]
    /\ objs = [u \in U |-> {}]
    /\ reordered = [u \in U |-> FALSE]
    /\ linked = FALSE
    /\ linkError = FALSE

Init ==
    /\ InitUnits({1})
    /\ avail \in Trees(MaxBad)
    /\ backref \in {{}} \cup { {g} : g \in Groups }

\* ------------------------------------------------------------ the including unit
\* The unit's source includes wrapper.h (once more).
TUInclude(u) ==
    /\ Running(u)
    /\ Top(u).file = TU
    /\ Top(u).pc < MaxIncludes
    /\ stack' = [stack EXCEPT ![u] =
                    <<[file |-> Self, pc |-> 1]>> \o Goto(u, Top(u).pc + 1)]
    /\ UNCHANGED <<units, avail, backref, macros, requested, visible, diags,
                   halted, finished, resolutions, first, objs, reordered, linked, linkError>>

\* The unit's source ends: its object file holds the unit's own definitions.
TUFinish(u) ==
    /\ Running(u)
    /\ Top(u).file = TU
    /\ finished' = [finished EXCEPT ![u] = TRUE]
    /\ objs' = [objs EXCEPT ![u] = @ \cup {[name |-> "unit", from |-> u]}]
    /\ UNCHANGED <<units, avail, backref, macros, stack, requested, visible,
                   diags, halted, resolutions, first, reordered, linked, linkError>>

\* ------------------------------------------------------------------ wrapper.h
\* An #ifndef that enters the body whether or not the guard is defined.
IfNDefNeverSkips(u) ==
    /\ AtOp(u, "ifndef")
    /\ stack' = [stack EXCEPT ![u] = Goto(u, Top(u).pc + 1)]
    /\ UNCHANGED <<units, avail, backref, macros, requested, visible, diags,
                   halted, finished, resolutions, first, objs, reordered, linked, linkError>>

\* Line 1: #ifndef GUARD.
IfNDef(u) ==
    /\ AtOp(u, "ifndef")
    /\ stack' = [stack EXCEPT ![u] =
                    IF WrapperH[Top(u).pc].arg \in macros[u]
                    THEN Goto(u, MatchingEndif(Top(u).pc))
                    ELSE Goto(u, Top(u).pc + 1)]
    /\ UNCHANGED <<units, avail, backref, macros, requested, visible, diags,
                   halted, finished, resolutions, first, objs, reordered, linked, linkError>>

\* The #define line left out: the guard is never defined.
DefineGuardMissing(u) ==
    /\ AtOp(u, "define")
    /\ stack' = [stack EXCEPT ![u] = Goto(u, Top(u).pc + 1)]
    /\ UNCHANGED <<units, avail, backref, macros, requested, visible, diags,
                   halted, finished, resolutions, first, objs, reordered, linked, linkError>>

\* A guard that is defined for the whole build instead of for the unit.
DefineGuardGlobal(u) ==
    /\ AtOp(u, "define")
    /\ macros' = [v \in units |-> macros[v] \cup {WrapperH[Top(u).pc].arg}]
    /\ stack' = [stack EXCEPT ![u] = Goto(u, Top(u).pc + 1)]
    /\ UNCHANGED <<units, avail, backref, requested, visible, diags,
                   halted, finished, resolutions, first, objs, reordered, linked, linkError>>

\* Line 2: #define GUARD.
DefineGuard(u) ==
    /\ AtOp(u, "define")
    /\ macros' = [macros EXCEPT ![u] = @ \cup {WrapperH[Top(u).pc].arg}]
    /\ stack' = [stack EXCEPT ![u] = Goto(u, Top(u).pc + 1)]
    /\ UNCHANGED <<units, avail, backref, requested, visible, diags,
                   halted, finished, resolutions, first, objs, reordered, linked, linkError>>

\* An #include that is skipped without a word when its file is missing.
ExecIncludeIfPresent(u, i, ret) ==
    LET g == WrapperH[i].arg IN
    /\ Len(stack[u]) < MaxDepth
    /\ requested' = [requested EXCEPT ![u][g] = @ + 1]
    /\ stack' = [stack EXCEPT ![u] =
                    IF avail[g] = "missing"
                    THEN Goto(u, ret)
                    ELSE <<[file |-> g, pc |-> 1]>> \o Goto(u, ret)]
    /\ UNCHANGED <<units, avail, backref, macros, visible, diags, halted, finished,
                   resolutions, first, objs, linked, linkError>>

\* An #include whose missing file ends wrapper.h there, the lines after it unread.
ExecIncludeTruncates(u, i, ret) ==
    LET g == WrapperH[i].arg IN
    /\ Len(stack[u]) < MaxDepth
    /\ requested' = [requested EXCEPT ![u][g] = @ + 1]
    /\ IF avail[g] = "missing"
       THEN /\ diags' = [diags EXCEPT ![u] = @ \cup {FailureOf(g)}]
            /\ \E fatal \in BOOLEAN : halted' = [halted EXCEPT ![u] = fatal]
            /\ stack' = [stack EXCEPT ![u] = Goto(u, Len(WrapperH) + 1)]
       ELSE /\ stack' = [stack EXCEPT ![u] =
                            <<[file |-> g, pc |-> 1]>> \o Goto(u, ret)]
            /\ UNCHANGED <<diags, halted>>
    /\ UNCHANGED <<units, avail, backref, macros, visible, finished,
                   resolutions, first, objs, linked, linkError>>

\* The #include at line i of wrapper.h, resuming at line ret.  A missing file is
\* reported; whether the translation goes on after it is the tool's choice.
ExecInclude(u, i, ret) ==
    LET g == WrapperH[i].arg IN
    /\ Len(stack[u]) < MaxDepth
    /\ requested' = [requested EXCEPT ![u][g] = @ + 1]
    /\ IF avail[g] = "missing"
       THEN /\ diags' = [diags EXCEPT ![u] = @ \cup {FailureOf(g)}]
            /\ \E fatal \in BOOLEAN : halted' = [halted EXCEPT ![u] = fatal]
            /\ stack' = [stack EXCEPT ![u] = Goto(u, ret)]
       ELSE /\ stack' = [stack EXCEPT ![u] =
                            <<[file |-> g, pc |-> 1]>> \o Goto(u, ret)]
            /\ UNCHANGED <<diags, halted>>
    /\ UNCHANGED <<units, avail, backref, macros, visible, finished,
                   resolutions, first, objs, linked, linkError>>

\* Lines 4-16, in the order of the text.
IncludeGroup(u) ==
    /\ AtOp(u, "include")
    /\ ExecInclude(u, Top(u).pc, Top(u).pc + 1)
    /\ UNCHANGED reordered

\* Lines 4-16 in another order: the next line run is any of the first Window lines
\* not run yet, the unit staying in the list until every line has been run.
IncludeAny(u) ==
    LET pend == { i \in IncludeLines : requested[u][WrapperH[i].arg] = 0 }
        near == { i \in pend : Cardinality({ j \in pend : j < i }) < Window }
    IN  /\ AtOp(u, "include")
        /\ \E i \in near :
              /\ ExecInclude(u, i, IF pend = {i} THEN MatchingEndif(1)
                                               ELSE Top(u).pc)
              /\ reordered' = [reordered EXCEPT ![u] =
                                  @ \/ \E j \in pend : j < i]

\* An #endif that also undefines the guard.
EndIfUndef(u) ==
    /\ AtOp(u, "endif")
    /\ macros' = [macros EXCEPT ![u] = @ \ {WrapperH[Top(u).pc].arg}]
    /\ stack' = [stack EXCEPT ![u] = Goto(u, Top(u).pc + 1)]
    /\ UNCHANGED <<units, avail, backref, requested, visible, diags,
                   halted, finished, resolutions, first, objs, reordered, linked, linkError>>

\* Line 18: #endif.
EndIf(u) ==
    /\ AtOp(u, "endif")
    /\ stack' = [stack EXCEPT ![u] = Goto(u, Top(u).pc + 1)]
    /\ UNCHANGED <<units, avail, backref, macros, requested, visible, diags,
                   halted, finished, resolutions, first, objs, reordered, linked, linkError>>

\* The end of wrapper.h: back to the file that included it.
EndOfFile(u) ==
    /\ Running(u)
    /\ Top(u).file = Self
    /\ Top(u).pc > Len(WrapperH)
    /\ stack' = [stack EXCEPT ![u] = Tail(@)]
    /\ IF Head(Tail(stack[u])).file = TU
       THEN /\ resolutions' = [resolutions EXCEPT ![u] = @ + 1]
            /\ first' = [first EXCEPT ![u] =
                            IF resolutions[u] = 0 THEN <<Obs(u)>> ELSE @]
       ELSE UNCHANGED <<resolutions, first>>
    /\ UNCHANGED <<units, avail, backref, macros, requested, visible, diags,
                   halted, finished, objs, reordered, linked, linkError>>

\* ------------------------------------------------------------- a group header
\* A group header that includes wrapper.h does so before its declarations.
GroupInclude(u) ==
    /\ Running(u)
    /\ Top(u).file \in backref
    /\ Top(u).pc = 1
    /\ Len(stack[u]) < MaxDepth
    /\ stack' = [stack EXCEPT ![u] = <<[file |-> Self, pc |-> 1]>> \o Goto(u, 2)]
    /\ UNCHANGED <<units, avail, backref, macros, requested, visible, diags,
                   halted, finished, resolutions, first, objs, reordered, linked, linkError>>

\* The group's declarations become visible, or the group reports its own failure.
GroupDeclare(u) ==
    LET g == Top(u).file IN
    /\ Running(u)
    /\ g \in Groups
    /\ Top(u).pc = 2 \/ g \notin backref
    /\ stack' = [stack EXCEPT ![u] = Tail(@)]
    /\ IF avail[g] = "broken"
       THEN /\ diags' = [diags EXCEPT ![u] = @ \cup {DirectFailure(g)}]
            /\ \E fatal \in BOOLEAN : halted' = [halted EXCEPT ![u] = fatal]
            /\ UNCHANGED visible
       ELSE IF DeclsOf(g) \subseteq visible[u]
       THEN /\ diags' = [diags EXCEPT ![u] = @ \cup {[file |-> g, kind |-> "duplicate"]}]
            /\ UNCHANGED <<visible, halted>>
       ELSE /\ visible' = [visible EXCEPT ![u] = @ \cup DeclsOf(g)]
            /\ UNCHANGED <<diags, halted>>
    /\ UNCHANGED <<units, avail, backref, macros, requested, finished,
                   resolutions, first, objs, reordered, linked, linkError>>

\* ------------------------------------------------------------------- the link
\* Every unit translated without a diagnostic: the objects are linked.
Link ==
    /\ ~linked
    /\ \A u \in units : finished[u] /\ diags[u] = {}
    /\ linked' = TRUE
    /\ linkError' = \E u \in units, v \in units : u # v /\ objs[u] \cap objs[v] # {}
    /\ UNCHANGED <<units, avail, backref, macros, stack, requested, visible,
                   diags, halted, finished, resolutions, first, objs, reordered>>

Next ==
    \/ \E u \in units : TUInclude(u)
    \/ \E u \in units : TUFinish(u)
    \/ \E u \in units : IfNDef(u)
    \/ \E u \in units : DefineGuard(u)
    \/ \E u \in units : IncludeGroup(u)
    \/ \E u \in units : EndIf(u)
    \/ \E u \in units : EndOfFile(u)
    \/ \E u \in units : GroupInclude(u)
    \/ \E u \in units : GroupDeclare(u)
    \/ Link

Spec == Init /\ [][Next]_vars

\* The preprocessor does not stop in the middle of a file.
SpecFair == Spec /\ WF_vars(Next)

\* Two units of one build, translated independently and then linked.
InitLink ==
    /\ InitUnits({1, 2})
    /\ avail \in Trees(MaxBad)
    /\ backref = {}

NextLink ==
    \/ \E u \in units : TUInclude(u)
    \/ \E u \in units : TUFinish(u)
    \/ \E u \in units : IfNDef(u)
    \/ \E u \in units : DefineGuard(u)
    \/ \E u \in units : IncludeGroup(u)
    \/ \E u \in units : EndIf(u)
    \/ \E u \in units : EndOfFile(u)
    \/ \E u \in units : GroupDeclare(u)
    \/ Link

SpecLink == InitLink /\ [][NextLink]_vars

\* One source tree translated twice: unit 1 runs wrapper.h as written, then unit 2
\* runs it with its #include lines in another order.
InitPerm ==
    /\ InitUnits({1, 2})
    /\ avail \in Trees(MaxBad)
    /\ backref = {}

Turn(u) == u = 1 \/ halted[1] \/ finished[1]

\* Each of the two units includes wrapper.h once.
NextPerm ==
    \/ \E u \in units : Turn(u) /\ Top(u).pc = 0 /\ TUInclude(u)
    \/ \E u \in units : Turn(u) /\ Top(u).pc = 1 /\ TUFinish(u)
    \/ \E u \in units : Turn(u) /\ IfNDef(u)
    \/ \E u \in units : Turn(u) /\ DefineGuard(u)
    \/ IncludeGroup(1)
    \/ Turn(2) /\ IncludeAny(2)
    \/ \E u \in units : Turn(u) /\ EndIf(u)
    \/ \E u \in units : Turn(u) /\ EndOfFile(u)
    \/ \E u \in units : Turn(u) /\ GroupDeclare(u)

SpecPerm == InitPerm /\ [][NextPerm]_vars

\* ------------------------------------------------------------ shared vocabulary
AllGroupDecls == UNION { DeclsOf(g) : g \in Groups }
Resolved(u, g) == DeclsOf(g) \subseteq visible[u]
Done(u) == halted[u] \/ finished[u]
\* The lines of wrapper.h at which the first resolution reported a failure.
FailedLines(u) ==
    { i \in IncludeLines : \E d \in first[u][1].diags : d.file = WrapperH[i].arg }

\* ---------------------------------------------------------------------- C1
\* C1: once wrapper.h has been processed once in a unit, however many more times
\* it is processed the unit looks as it did after the first time: the same groups
\* requested, the same declarations visible, the same diagnostics.
C1_Idempotent ==
    \A u \in units : resolutions[u] >= 1 => first[u] = <<Obs(u)>>

C1_Witness ==
    \E u \in units : /\ resolutions[u] >= 2
                     /\ visible[u] = AllGroupDecls
                     /\ first[u] = <<Obs(u)>>

\* ---------------------------------------------------------------------- C2
\* C2: wrapper.h never requests a group twice and no duplicate declaration is
\* reported; once a resolution of wrapper.h has completed, from however many places
\* it was included, every one of the thirteen groups has been requested exactly once.
C2_ExactlyOnce ==
    \A u \in units :
        /\ \A g \in Groups : requested[u][g] <= 1
        /\ \A d \in diags[u] : d.kind # "duplicate"
        /\ resolutions[u] >= 1 => \A g \in Groups : requested[u][g] = 1
        /\ resolutions[u] >= 1 /\ diags[u] = {} => visible[u] = AllGroupDecls

C2_Witness ==
    \E u \in units : /\ resolutions[u] >= 2
                     /\ backref # {}
                     /\ \A g \in Groups : requested[u][g] = 1
                     /\ visible[u] = AllGroupDecls

\* ---------------------------------------------------------------------- C3
\* The names of the unit: those declared, and those defined as macros.
NamesIn(u) == { d.name : d \in visible[u] } \cup macros[u]

\* C3 as stated: after a successful resolution the names of the unit are exactly the
\* names the thirteen groups declare, wrapper.h adding none of its own.
C3_NoExtraName ==
    \A u \in units :
        resolutions[u] >= 1 /\ diags[u] = {} =>
            NamesIn(u) = { d.name : d \in AllGroupDecls }

\* C3 (amended): every declaration visible comes from one of the thirteen groups;
\* after a successful resolution the declarations visible are exactly those of the
\* thirteen groups; and the one name wrapper.h itself adds is its guard macro.
C3_OnlyGroupsAndGuard ==
    \A u \in units :
        /\ visible[u] \subseteq AllGroupDecls
        /\ macros[u] \subseteq {Guard}
        /\ resolutions[u] >= 1 /\ diags[u] = {} =>
              /\ visible[u] = AllGroupDecls
              /\ NamesIn(u) = { d.name : d \in AllGroupDecls } \cup {Guard}

C3_Witness ==
    \E u \in units : /\ resolutions[u] >= 1
                     /\ diags[u] = {}
                     /\ visible[u] = AllGroupDecls
                     /\ macros[u] = {Guard}

\* ---------------------------------------------------------------------- C4
\* The one group of the source tree that is missing, the other twelve resolvable.
OnlyMissing(g) ==
    /\ avail[g] = "missing"
    /\ \A h \in Groups \ {g} : avail[h] = "ok"

\* C4: with one group missing and the other twelve resolvable, a resolution of
\* wrapper.h that has ended (completed, or stopped the translation) has failed, and
\* the failure reported names the missing group and no other.
C4_MissingAttributable ==
    \A u \in units : \A g \in Groups :
        OnlyMissing(g) /\ (resolutions[u] >= 1 \/ halted[u]) =>
            /\ diags[u] # {}
            /\ \A d \in diags[u] : d.file = g /\ d.kind = "missing"

C4_Witness ==
    \E u \in units : \E g \in Groups :
        /\ OnlyMissing(g)
        /\ halted[u]
        /\ diags[u] = {[file |-> g, kind |-> "missing"]}

\* ---------------------------------------------------------------------- C5
\* The groups wrapper.h has asked for and that could not be resolved.
FailedGroups(u) ==
    { g \in Groups : /\ requested[u][g] >= 1
                     /\ avail[g] # "ok"
                     /\ \A k \in 1..Len(stack[u]) : stack[u][k].file # g }

\* C5: the failures reported are exactly the failures that the groups asked for
\* report when resolved directly; so there is none when all thirteen resolve, the
\* resolution then completes, and a translation stops only on a group's failure.
C5_FailureUnchanged ==
    \A u \in units :
        /\ diags[u] = { DirectFailure(g) : g \in FailedGroups(u) }
        /\ halted[u] => diags[u] # {}
        /\ (\A g \in Groups : avail[g] = "ok") /\ resolutions[u] >= 1 =>
              diags[u] = {} /\ visible[u] = AllGroupDecls

C5_Witness ==
    \E u \in units : \E g \in Groups :
        /\ avail[g] = "missing"
        /\ resolutions[u] >= 1
        /\ diags[u] = {DirectFailure(g)}

\* ---------------------------------------------------------------------- C6
\* The resolution of wrapper.h in unit u has ended: completed, or stopped the unit.
Ended(u) == resolutions[u] >= 1 \/ halted[u]
Succeeded(u) == resolutions[u] >= 1 /\ diags[u] = {}

\* C6 (under SpecPerm): on one source tree, wrapper.h run with its #include lines in
\* another order succeeds exactly when wrapper.h run as written succeeds; and when
\* both runs complete they make the same declarations visible and report the same
\* failures.
C6_OrderIndependent ==
    /\ Ended(1) /\ Ended(2) => (Succeeded(1) <=> Succeeded(2))
    /\ resolutions[1] >= 1 /\ resolutions[2] >= 1 =>
          visible[1] = visible[2] /\ diags[1] = diags[2]

C6_Witness ==
    /\ reordered[2]
    /\ ~reordered[1]
    /\ Succeeded(1)
    /\ Succeeded(2)
    /\ visible[2] = AllGroupDecls

\* ---------------------------------------------------------------------- C7
\* C7 (under SpecLink): the guard of one unit does not reach the other, so each
\* unit that completes a resolution of wrapper.h has run its body, every group asked
\* for once; and linking the two objects finds no symbol defined twice.
C7_CrossUnitSafe ==
    /\ \A u \in units :
          resolutions[u] >= 1 => \A g \in Groups : requested[u][g] = 1
    /\ \A u \in units, v \in units :
          u # v => objs[u] \cap objs[v] = {}
    /\ linked => ~linkError

C7_Witness ==
    /\ units = {1, 2}
    /\ linked
    /\ ~linkError
    /\ \A u \in units : resolutions[u] >= 1 /\ visible[u] = AllGroupDecls

Reentrant(u, k) ==
    /\ k < Len(stack[u])
    /\ stack[u][k].file = Self
    /\ stack[u][k+1].file \in Groups

GuardBeforeContent ==
    \A u \in units :
        /\ (\E g \in Groups : requested[u][g] >= 1) => Guard \in macros[u]
        /\ \A g \in Groups : requested[u][g] <= 1
        /\ Len(stack[u]) <= 4
        /\ \A k \in 1..Len(stack[u]) :
              Reentrant(u, k) =>
                  stack[u][k].pc \in {1, MatchingEndif(1), Len(WrapperH) + 1}

\* C9 (under SpecFair): the guard is defined before wrapper.h asks for its first
\* group; so a resolution begun from inside a group never enters the body, no group
\* is asked for twice, the include stack never grows past unit, wrapper.h, group,
\* wrapper.h, and the translation of every unit comes to its end.
C9_GuardBeforeContent ==
    /\ []GuardBeforeContent
    /\ <>(\A u \in units : Done(u))

C9_Witness ==
    \E u \in units : /\ Reentrant(u, 1)
                     /\ Top(u).pc = MatchingEndif(1)
                     /\ Len(stack[u]) = 4

\* --------------------------------------------------------------------- C10
\* The first resolution of wrapper.h in the unit completed with a failure.
FirstFailed(u) == resolutions[u] >= 1 /\ first[u][1].diags # {}

\* The first line of wrapper.h at which the first resolution failed.
FirstFailedLine(u) ==
    CHOOSE i \in FailedLines(u) : \A j \in FailedLines(u) : i <= j

\* C10 as stated: after a failed first resolution and a later one, the group the
\* first failed at and every group listed after it are unresolved.
C10_LaterGroupsUnresolved ==
    \A u \in units :
        FirstFailed(u) /\ resolutions[u] >= 2 =>
            \A i \in IncludeLines :
                i >= FirstFailedLine(u) => ~Resolved(u, WrapperH[i].arg)

\* C10 (amended): after a failed first resolution the guard is defined, and a later
\* resolution skips the body: it asks for no group, reports no failure, makes no
\* declaration visible, and the groups that failed stay unresolved.  The groups
\* listed after the failing one stay as the first resolution left them.
C10_GuardStaysAfterFailure ==
    \A u \in units :
        FirstFailed(u) =>
            /\ Guard \in macros[u]
            /\ requested[u] = first[u][1].requested
            /\ diags[u] = first[u][1].diags
            /\ visible[u] = first[u][1].visible
            /\ \A i \in FailedLines(u) : ~Resolved(u, WrapperH[i].arg)
            /\ Top(u).file = Self =>
                  Top(u).pc \in {1, MatchingEndif(1), Len(WrapperH) + 1}

C10_Witness ==
    \E u \in units : /\ FirstFailed(u)
                     /\ resolutions[u] >= 2
                     /\ FirstFailedLine(u) < MatchingEndif(1) - 1
                     /\ ~Resolved(u, WrapperH[FirstFailedLine(u)].arg)

====
